---- MODULE Spec2Model ----
(***************************************************************************)
(* Model of backend/chandra_service.py: the command-line entry point main  *)
(* and the single-page extractor process_pdf.                              *)
(*                                                                         *)
(* A string is a sequence of tokens; a token is a one-character string or  *)
(* a literal fragment of a format string.  A float is an integer number of *)
(* tenths (725 stands for 72.5), so that int() truncation is visible.      *)
(* The PDF library and the filesystem are the environment: what they       *)
(* return is chosen with \E when the code calls them.                      *)
(***************************************************************************)
EXTENDS Integers, Sequences, FiniteSets, TLC

VARIABLES
    pc,            \* position of the process in main / process_pdf
    argv,          \* sys.argv
    file_path,     \* main: file_path
    page_number,   \* main / process_pdf: page_number
    fileExists,    \* what os.path.exists answered
    docState,      \* the document handle: "none", "open" or "closed"
    numPages,      \* len(doc) of the opened document
    blocks,        \* process_pdf: blocks
    idx,           \* number of blocks the for loop has consumed
    html_parts,    \* process_pdf: html_parts
    chunks,        \* process_pdf: chunks
    full_text,     \* process_pdf: full_text
    page_rect,     \* page.rect as <<width, height>>, in tenths
    total_pages,   \* process_pdf: total_pages
    caught,        \* class of the exception an except clause caught
    result,        \* the dict returned by process_pdf
    stdout,        \* the JSON documents printed to stdout, in order
    exitStatus,    \* process exit status, -1 while running
    log            \* the external operations performed, in order

vars == <<pc, argv, file_path, page_number, fileExists, docState, numPages,
          blocks, idx, html_parts, chunks, full_text, page_rect, total_pages,
          caught,
          result, stdout, exitStatus, log>>

---------------------------------------------------------------------------
(* Bounds *)

MaxPages == 2

MaxBlocks == 2

---------------------------------------------------------------------------
(* Strings *)

DigitChars == <<"0", "1", "2", "3", "4", "5", "6", "7", "8", "9">>

WhitespaceChars == {" ", "\t"}

IsDigit(c) == \E k \in 1..10 : DigitChars[k] = c

DigitVal(c) == (CHOOSE k \in 1..10 : DigitChars[k] = c) - 1

RECURSIVE LStrip(_)
LStrip(s) ==
    IF s = <<>> THEN <<>>
    ELSE IF Head(s) \in WhitespaceChars THEN LStrip(Tail(s)) ELSE s

RECURSIVE RStrip(_)
RStrip(s) ==
    IF s = <<>> THEN <<>>
    ELSE IF s[Len(s)] \in WhitespaceChars
         THEN RStrip(SubSeq(s, 1, Len(s) - 1)) ELSE s

\* str.strip()
Strip(s) == RStrip(LStrip(s))

RECURSIVE DigitsValue(_)
DigitsValue(ds) ==
    IF ds = <<>> THEN 0
    ELSE DigitsValue(SubSeq(ds, 1, Len(ds) - 1)) * 10 + DigitVal(ds[Len(ds)])

\* int(str): surrounding whitespace, an optional sign, then decimal digits;
\* anything else raises ValueError (ok = FALSE).
ParseInt(s) ==
    LET t    == Strip(s)
        sgn  == t # <<>> /\ Head(t) \in {"+", "-"}
        body == IF sgn THEN Tail(t) ELSE t
        ok   == body # <<>> /\ \A i \in 1..Len(body) : IsDigit(body[i])
    IN  [ok  |-> ok,
         val |-> IF ~ok THEN 0
                 ELSE IF sgn /\ Head(t) = "-" THEN 0 - DigitsValue(body)
                 ELSE DigitsValue(body)]

RECURSIVE NatToChars(_)
NatToChars(n) ==
    IF n < 10 THEN <<DigitChars[n + 1]>>
    ELSE NatToChars(n \div 10) \o <<DigitChars[(n % 10) + 1]>>

\* str(int), as an f-string formats an integer
IntToChars(n) == IF n < 0 THEN <<"-">> \o NatToChars(0 - n) ELSE NatToChars(n)

\* int(float): truncation toward zero of a value given in tenths
IntTrunc(x) == IF x >= 0 THEN x \div 10 ELSE 0 - ((0 - x) \div 10)

RECURSIVE JoinWith(_, _)
\* sep.join(parts)
JoinWith(parts, sep) ==
    IF parts = <<>> THEN <<>>
    ELSE IF Len(parts) = 1 THEN parts[1]
    ELSE parts[1] \o sep \o JoinWith(Tail(parts), sep)

---------------------------------------------------------------------------
(* Inputs: command lines, library answers *)

\* sys.argv[2] candidates: page indexes up to the page count, negative
\* indexes down to one below -count, and strings int() accepts or rejects.
PageArgs ==
    {<<DigitChars[k + 1]>> : k \in 0..MaxPages}
    \cup {<<"-", DigitChars[k + 1]>> : k \in 1..(MaxPages + 1)}
    \cup {<<" ", "1", "\t">>, <<"+", "0">>, <<"1", "0">>,
          <<"x">>, <<>>, <<"1", ".", "5">>, <<"-">>}

ProgName == <<"chandra_service.py">>

PdfPath == <<"r", ".", "p", "d", "f">>

ArgVectors ==
    {<<ProgName>>, <<ProgName, PdfPath>>}
    \cup {<<ProgName, PdfPath, a>> : a \in PageArgs}
    \cup {<<ProgName, PdfPath, <<"0">>, <<"extra">>>>}

\* Blocks of page.get_text("dict")["blocks"].  lines is the block's "lines"
\* list ([] when the key is absent); a line is the list of its spans' texts.
BlockSet ==
    { [type |-> 0, bbox |-> <<725, 720, 2009, 905>>,
       lines |-> << << <<" ", "a">>, <<"b", " ">> >>,
                    << <<" ">> >>,
                    << <<"a", " ", "b">> >> >>],
      [type |-> 0, bbox |-> <<100, 100, 200, 200>>,
       lines |-> << << <<"\t">>, <<>> >>, <<>> >>],
      [type |-> 0, bbox |-> <<100, 3000, 200, 3109>>, lines |-> <<>>],
      [type |-> 1, bbox |-> <<0, 0, 5953, 8419>>, lines |-> <<>>],
      [type |-> 1, bbox |-> <<725, 720, 2009, 905>>,
       lines |-> << << <<"a">> >> >>],
      [type |-> 0, bbox |-> <<-15, -9, 99, 1000>>,
       lines |-> << << <<"a">> >> >>],
      [type |-> 0, bbox |-> <<10, 19, 1234, 50>>,
       lines |-> << << <<>> >>, << <<"\t", "b">>, <<>>, <<"a", " ">> >> >>] }

BlockSeqs == UNION {[1..n -> BlockSet] : n \in 0..MaxBlocks}

\* page.get_text() answers
FullTexts == {<<>>, <<"a", "b", "\n", "a", " ", "b", "\n">>}

\* page.rect answers, <<width, height>> in tenths of a point
PageRects == {<<5953, 8419>>, <<6120, 7920>>}

ImportErrorText == <<"No module named 'fitz'">>

LibraryErrorText == <<"cannot open broken document">>

IndexErrorText == <<"page not in document">>

TracebackText == <<"Traceback (most recent call last): ...">>

---------------------------------------------------------------------------
(* process_pdf: pure parts *)

PageCheckOffByOne(p, n) == p > n

PageCheckRejectsNegative(p, n) == p >= n \/ p < 0

\* the precondition check of process_pdf
PageOutOfRange(p, n) == p >= n

\* doc[page_number] of the library: negative indexes count from the end
PageInDocument(p, n) == (0 - n) <= p /\ p < n

PageNotFoundResult(p, n) ==
    [success |-> FALSE,
     error   |-> <<"Page ">> \o IntToChars(p) \o <<" not found (PDF has ">>
                 \o IntToChars(n) \o <<" pages)">>]

AnyBlockIsText(block) == TRUE

IsTextBlock(block) == block.type = 0

RECURSIVE LineText(_)
\* line_text: the span texts of a line, concatenated
LineText(spans) ==
    IF spans = <<>> THEN <<>> ELSE Head(spans) \o LineText(Tail(spans))

RECURSIVE TextLines(_)
\* text_lines: the stripped text of each line that is non-empty when stripped
TextLines(lines) ==
    IF lines = <<>> THEN <<>>
    ELSE LET line_text == LineText(Head(lines))
         IN  IF Strip(line_text) # <<>>
             THEN <<Strip(line_text)>> \o TextLines(Tail(lines))
             ELSE TextLines(Tail(lines))

Content(text_lines) == JoinWith(text_lines, <<" ">>)

BboxInts(bbox) ==
    <<IntTrunc(bbox[1]), IntTrunc(bbox[2]), IntTrunc(bbox[3]), IntTrunc(bbox[4])>>

DivOpen(bbox) ==
    <<"<div data-bbox=\"[">> \o IntToChars(IntTrunc(bbox[1])) \o <<",">>
    \o IntToChars(IntTrunc(bbox[2])) \o <<",">>
    \o IntToChars(IntTrunc(bbox[3])) \o <<",">>
    \o IntToChars(IntTrunc(bbox[4])) \o <<"]\" data-label=\"Text\">">>

Paragraph(content) == <<"<p>">> \o content \o <<"</p>">>

DivClose == <<"</div>">>

Chunk(bbox, content) ==
    [bbox |-> BboxInts(bbox), label |-> "Text", content |-> content]

SuccessResultMiscounted(h, md, ch, rect, p, total) ==
    [success |-> TRUE, html |-> h, markdown |-> md, chunks |-> ch,
     blocks |-> ch, raw |-> h,
     image_width |-> IntTrunc(rect[1]), image_height |-> IntTrunc(rect[2]),
     metadata |-> [page_number |-> p, num_blocks |-> Len(ch) + 1,
                   total_pages |-> total]]

SuccessResult(h, md, ch, rect, p, total) ==
    [success |-> TRUE, html |-> h, markdown |-> md, chunks |-> ch,
     blocks |-> ch, raw |-> h,
     image_width |-> IntTrunc(rect[1]), image_height |-> IntTrunc(rect[2]),
     metadata |-> [page_number |-> p, num_blocks |-> Len(ch),
                   total_pages |-> total]]

InstallTroubleshooting ==
    <<"Install chandra-ocr: pip install chandra-ocr",
      "Make sure all dependencies are installed",
      "Check Python environment is properly configured">>

GenericTroubleshooting ==
    <<"Ensure the PDF file is valid and readable",
      "Check if file path is correct",
      "Verify sufficient memory is available",
      "Try with a simpler PDF file">>

ImportErrorResult(e) ==
    [success |-> FALSE,
     error |-> <<"Chandra OCR not installed: ">> \o e,
     troubleshooting |-> InstallTroubleshooting]

ExceptionResult(e) ==
    [success |-> FALSE, error |-> e, traceback |-> TracebackText,
     troubleshooting |-> GenericTroubleshooting]

ExceptAlwaysGeneric(cls, e) == ExceptionResult(e)

\* the except clauses of process_pdf, tried in order
Except(cls, e) ==
    IF cls = "ImportError" THEN ImportErrorResult(e) ELSE ExceptionResult(e)

---------------------------------------------------------------------------
(* main: pure parts *)

UsageResult ==
    [success |-> FALSE,
     error |-> <<"Usage: python chandra_service.py <pdf_path> [page_number]">>]

FileNotFoundResult(path) ==
    [success |-> FALSE, error |-> <<"File not found: ">> \o path]

TooFewArgs(args) == Len(args) < 2

FileMissingNever(exists) == FALSE

FileMissing(exists) == ~exists

ExitStatusAlwaysZero(res) == 0

ExitStatus(res) == IF res.success THEN 0 ELSE 1

NoResult == [success |-> FALSE, error |-> <<>>, unset |-> TRUE]

---------------------------------------------------------------------------
(* The program *)

Init ==
    /\ pc = "main_args"
    /\ argv \in ArgVectors
    /\ file_path = <<>>
    /\ page_number = 0
    /\ fileExists = FALSE
    /\ docState = "none"
    /\ numPages = 0
    /\ blocks = <<>>
    /\ idx = 0
    /\ html_parts = <<>>
    /\ chunks = <<>>
    /\ full_text = <<>>
    /\ page_rect = <<0, 0>>
    /\ total_pages = 0
    /\ caught = "none"
    /\ result = NoResult
    /\ stdout = <<>>
    /\ exitStatus = -1
    /\ log = <<>>

mainVars == <<argv, file_path, page_number, fileExists>>

pageVars == <<blocks, idx, html_parts, chunks, full_text, page_rect, total_pages>>

\* an exception of class cls raised inside the try block of process_pdf
\* after the operations ops: the matching except clause returns its dict
Raise(cls, e, ops) ==
    /\ caught' = cls
    /\ result' = Except(cls, e)
    /\ log' = log \o ops \o <<"return">>
    /\ pc' = "main_print"
    /\ UNCHANGED <<mainVars, docState, numPages, pageVars, stdout, exitStatus>>

\* main: if len(sys.argv) < 2: print usage, sys.exit(1)
main_check_args ==
    /\ pc = "main_args"
    /\ IF TooFewArgs(argv)
       THEN /\ stdout' = Append(stdout, UsageResult)
            /\ exitStatus' = 1
            /\ log' = log \o <<"print", "exit">>
            /\ pc' = "exited"
       ELSE /\ pc' = "main_parse"
            /\ UNCHANGED <<stdout, exitStatus, log>>
    /\ UNCHANGED <<mainVars, docState, numPages, pageVars, caught, result>>

\* main: file_path = sys.argv[1]; page_number = int(sys.argv[2]) or 0.
\* A ValueError of int() is caught nowhere: the interpreter prints the
\* traceback to stderr and ends the process with status 1.
main_parse_args ==
    /\ pc = "main_parse"
    /\ file_path' = argv[2]
    /\ IF Len(argv) > 2
       THEN LET r == ParseInt(argv[3])
            IN  IF r.ok
                THEN /\ page_number' = r.val
                     /\ pc' = "main_exists"
                     /\ UNCHANGED <<caught, exitStatus>>
                ELSE /\ caught' = "uncaught ValueError"
                     /\ exitStatus' = 1
                     /\ pc' = "crashed"
                     /\ UNCHANGED page_number
       ELSE /\ page_number' = 0
            /\ pc' = "main_exists"
            /\ UNCHANGED <<caught, exitStatus>>
    /\ UNCHANGED <<argv, fileExists, docState, numPages, pageVars, result,
                   stdout, log>>

\* main: if not os.path.exists(file_path): print file-not-found, sys.exit(1)
main_check_exists ==
    /\ pc = "main_exists"
    /\ \E exists \in BOOLEAN :
        /\ fileExists' = exists
        /\ IF FileMissing(exists)
           THEN /\ stdout' = Append(stdout, FileNotFoundResult(file_path))
                /\ exitStatus' = 1
                /\ log' = log \o <<"exists", "print", "exit">>
                /\ pc' = "exited"
           ELSE /\ pc' = "pdf_import"
                /\ log' = Append(log, "exists")
                /\ UNCHANGED <<stdout, exitStatus>>
    /\ UNCHANGED <<argv, file_path, page_number, docState, numPages, pageVars,
                   caught, result>>

\* process_pdf: import fitz
process_pdf_import ==
    /\ pc = "pdf_import"
    /\ \/ /\ pc' = "pdf_open"
          /\ log' = Append(log, "import")
          /\ UNCHANGED <<mainVars, docState, numPages, pageVars, caught,
                         result, stdout, exitStatus>>
       \/ Raise("ImportError", ImportErrorText, <<"import">>)

\* process_pdf: doc = fitz.open(file_path)
process_pdf_open ==
    /\ pc = "pdf_open"
    /\ \/ \E n \in 0..MaxPages :
            /\ docState' = "open"
            /\ numPages' = n
            /\ log' = Append(log, "open")
            /\ pc' = "pdf_check"
            /\ UNCHANGED <<mainVars, pageVars, caught, result, stdout,
                           exitStatus>>
       \/ Raise("Exception", LibraryErrorText, <<"open">>)

process_pdf_check_page_closing ==
    /\ pc = "pdf_check"
    /\ IF PageOutOfRange(page_number, numPages)
       THEN /\ result' = PageNotFoundResult(page_number, numPages)
            /\ log' = log \o <<"len", "len", "close", "return">>
            /\ docState' = "closed"
            /\ pc' = "main_print"
       ELSE /\ pc' = "pdf_page"
            /\ log' = Append(log, "len")
            /\ UNCHANGED <<result, docState>>
    /\ UNCHANGED <<mainVars, numPages, pageVars, caught, stdout, exitStatus>>

\* process_pdf: if page_number >= len(doc): return the page-not-found dict
process_pdf_check_page ==
    /\ pc = "pdf_check"
    /\ IF PageOutOfRange(page_number, numPages)
       THEN /\ result' = PageNotFoundResult(page_number, numPages)
            /\ log' = log \o <<"len", "len", "return">>
            /\ pc' = "main_print"
       ELSE /\ pc' = "pdf_page"
            /\ log' = Append(log, "len")
            /\ UNCHANGED result
    /\ UNCHANGED <<mainVars, docState, numPages, pageVars, caught, stdout,
                   exitStatus>>

\* process_pdf: page = doc[page_number]
process_pdf_get_page ==
    /\ pc = "pdf_page"
    /\ \/ /\ PageInDocument(page_number, numPages)
          /\ pc' = "pdf_blocks"
          /\ log' = log \o <<"getitem", "len">>
          /\ UNCHANGED <<mainVars, docState, numPages, pageVars, caught,
                         result, stdout, exitStatus>>
       \/ /\ ~PageInDocument(page_number, numPages)
          /\ Raise("Exception", IndexErrorText, <<"getitem">>)
       \/ /\ PageInDocument(page_number, numPages)
          /\ Raise("Exception", LibraryErrorText, <<"getitem">>)

\* process_pdf: blocks = page.get_text("dict")["blocks"]; html_parts = [];
\* chunks = []
process_pdf_get_blocks ==
    /\ pc = "pdf_blocks"
    /\ \/ \E bs \in BlockSeqs :
            /\ blocks' = bs
            /\ idx' = 0
            /\ html_parts' = <<>>
            /\ chunks' = <<>>
            /\ log' = Append(log, "get_text_dict")
            /\ pc' = "pdf_loop"
            /\ UNCHANGED <<mainVars, docState, numPages, full_text, page_rect,
                           total_pages, caught, result, stdout, exitStatus>>
       \/ Raise("Exception", LibraryErrorText, <<"get_text_dict">>)

\* process_pdf: one iteration of "for block in blocks"
process_pdf_block ==
    /\ pc = "pdf_loop"
    /\ idx < Len(blocks)
    /\ LET block      == blocks[idx + 1]
           text_lines == TextLines(block.lines)
           content    == Content(text_lines)
       IN  IF IsTextBlock(block) /\ text_lines # <<>>
           THEN /\ html_parts' = html_parts \o <<DivOpen(block.bbox),
                                                Paragraph(content), DivClose>>
                /\ chunks' = Append(chunks, Chunk(block.bbox, content))
           ELSE UNCHANGED <<html_parts, chunks>>
    /\ idx' = idx + 1
    /\ UNCHANGED <<pc, mainVars, docState, numPages, blocks, full_text,
                   page_rect, total_pages, caught, result, stdout, exitStatus,
                   log>>

\* process_pdf: full_text = page.get_text(), once the loop is over
process_pdf_get_text ==
    /\ pc = "pdf_loop"
    /\ idx = Len(blocks)
    /\ \/ \E t \in FullTexts :
            /\ full_text' = t
            /\ log' = Append(log, "get_text")
            /\ pc' = "pdf_dims"
            /\ UNCHANGED <<mainVars, docState, numPages, blocks, idx,
                           html_parts, chunks, page_rect, total_pages, caught,
                           result, stdout, exitStatus>>
       \/ Raise("Exception", LibraryErrorText, <<"get_text">>)

\* process_pdf: page_width, page_height = int(page.rect...);
\* total_pages = len(doc)
process_pdf_get_dims ==
    /\ pc = "pdf_dims"
    /\ \E r \in PageRects : page_rect' = r
    /\ total_pages' = numPages
    /\ log' = log \o <<"rect", "len">>
    /\ pc' = "pdf_close"
    /\ UNCHANGED <<mainVars, docState, numPages, blocks, idx, html_parts,
                   chunks, full_text, caught, result, stdout, exitStatus>>

process_pdf_close_skipped ==
    /\ pc = "pdf_close"
    /\ pc' = "pdf_return"
    /\ UNCHANGED <<mainVars, docState, numPages, pageVars, caught, result,
                   stdout, exitStatus, log>>

\* process_pdf: doc.close()
process_pdf_close ==
    /\ pc = "pdf_close"
    /\ docState' = "closed"
    /\ log' = Append(log, "close")
    /\ pc' = "pdf_return"
    /\ UNCHANGED <<mainVars, numPages, pageVars, caught, result, stdout,
                   exitStatus>>

\* process_pdf: return the success dict
process_pdf_return ==
    /\ pc = "pdf_return"
    /\ result' = SuccessResult(JoinWith(html_parts, <<"\n">>), full_text,
                               chunks, page_rect, page_number, total_pages)
    /\ log' = Append(log, "return")
    /\ pc' = "main_print"
    /\ UNCHANGED <<mainVars, docState, numPages, pageVars, caught, stdout,
                   exitStatus>>

\* main: print(json.dumps(result, ...))
main_print ==
    /\ pc = "main_print"
    /\ stdout' = Append(stdout, result)
    /\ log' = Append(log, "print")
    /\ pc' = "main_exit"
    /\ UNCHANGED <<mainVars, docState, numPages, pageVars, caught, result,
                   exitStatus>>

\* main: sys.exit(0 if result.get("success") else 1)
main_exit ==
    /\ pc = "main_exit"
    /\ exitStatus' = ExitStatus(result)
    /\ log' = Append(log, "exit")
    /\ pc' = "exited"
    /\ UNCHANGED <<mainVars, docState, numPages, pageVars, caught, result,
                   stdout>>

Next ==
    \/ main_check_args
    \/ main_parse_args
    \/ main_check_exists
    \/ process_pdf_import
    \/ process_pdf_open
    \/ process_pdf_check_page
    \/ process_pdf_get_page
    \/ process_pdf_get_blocks
    \/ process_pdf_block
    \/ process_pdf_get_text
    \/ process_pdf_get_dims
    \/ process_pdf_close
    \/ process_pdf_return
    \/ main_print
    \/ main_exit

Spec == Init /\ [][Next]_vars

---------------------------------------------------------------------------
(* Properties *)

LogSet == {log[i] : i \in DOMAIN log}

\* index of the first occurrence of op in the log, 0 when absent
Pos(op) ==
    IF op \in LogSet THEN CHOOSE i \in DOMAIN log :
                              log[i] = op /\ \A k \in 1..(i - 1) : log[k] # op
    ELSE 0

\* process_pdf has returned its dict to main
Returned == "return" \in LogSet

Terminated == pc \in {"exited", "crashed"}

Contains(s, sub) ==
    \E i \in 1..(Len(s) - Len(sub) + 1) : SubSeq(s, i, i + Len(sub) - 1) = sub

LibraryReads == {"getitem", "get_text_dict", "get_text", "rect"}

\* C1: every invocation of main ends by main's own exit with exactly one
\* JSON document on stdout and status 0 or 1; there is no uncaught exception.
C1_OneJsonAndNoCrash ==
    /\ Len(stdout) <= 1
    /\ pc # "crashed"
    /\ Terminated => (Len(stdout) = 1 /\ exitStatus \in {0, 1})

\* C2: when main has exited by its own exit call, the status is 0 exactly
\* when the printed JSON object has success = true; the usage exit, the
\* file-not-found exit and every failed process_pdf result give status 1.
C2_ExitStatusMatchesSuccess ==
    pc = "exited" =>
        /\ Len(stdout) = 1
        /\ (exitStatus = 0) <=> stdout[1].success
        /\ exitStatus \in {0, 1}
        /\ (Len(argv) < 2) => exitStatus = 1
        /\ (Len(argv) >= 2 /\ ~fileExists) => exitStatus = 1
        /\ (Returned /\ ~result.success) => exitStatus = 1

C2_Witness ==
    pc = "exited" /\ exitStatus = 0 /\ Len(stdout) = 1 /\ stdout[1].success

\* C3: for an opened document and page_number >= page count, process_pdf
\* returns success = false with a message containing the requested page
\* number and the page count, having read no page, block, text or dimension
\* and having raised no exception.
C3_PageOutOfRangeRejected ==
    (Returned /\ docState # "none" /\ page_number >= numPages) =>
        /\ ~result.success
        /\ Contains(result.error, <<"Page ">> \o IntToChars(page_number))
        /\ Contains(result.error,
                    <<" not found (PDF has ">> \o IntToChars(numPages))
        /\ LogSet \cap LibraryReads = {}
        /\ caught = "none"
        /\ DOMAIN result = {"success", "error"}

C3_Witness ==
    /\ pc = "exited" /\ Returned /\ docState # "none"
    /\ numPages > 0 /\ page_number = numPages

\* C4: process_pdf is called only after the argument-count check and the
\* file-existence check have passed; the usage exit touches neither the
\* filesystem nor the library, the file-not-found exit does not touch the
\* library, and both print a success = false object and exit with status 1.
C4_ChecksBeforeOpen ==
    /\ ("exists" \in LogSet) => Len(argv) >= 2
    /\ (pc \notin {"main_args", "main_parse", "main_exists", "crashed"}
        /\ Len(argv) >= 2 /\ fileExists) => "exists" \in LogSet
    /\ ("import" \in LogSet \/ docState # "none" \/ Returned) =>
          /\ Len(argv) >= 2
          /\ fileExists
          /\ Pos("exists") > 0
          /\ Pos("exists") < Pos("import")
    /\ (pc = "exited" /\ Len(argv) < 2) =>
          /\ log = <<"print", "exit">>
          /\ stdout = <<UsageResult>>
          /\ ~stdout[1].success
          /\ exitStatus = 1
    /\ (pc = "exited" /\ Len(argv) >= 2 /\ ~fileExists) =>
          /\ log = <<"exists", "print", "exit">>
          /\ docState = "none"
          /\ Len(stdout) = 1
          /\ ~stdout[1].success
          /\ Contains(stdout[1].error, file_path)
          /\ exitStatus = 1

C4_Witness ==
    pc = "exited" /\ Len(argv) >= 2 /\ ~fileExists /\ "exists" \in LogSet

\* C5: in every success result blocks equals chunks, raw equals html,
\* metadata.num_blocks is the number of chunks, metadata.page_number is the
\* requested page and metadata.total_pages is the document's page count.
C5_SuccessResultConsistent ==
    (Returned /\ result.success) =>
        /\ result.blocks = result.chunks
        /\ result.chunks = chunks
        /\ result.raw = result.html
        /\ result.metadata.num_blocks = Len(result.chunks)
        /\ result.metadata.page_number = page_number
        /\ result.metadata.total_pages = numPages

C5_Witness ==
    /\ pc = "exited" /\ Returned /\ result.success
    /\ Len(result.chunks) = 2 /\ numPages = 2 /\ page_number = 1

NonBlankLine(line) ==
    \E i \in 1..Len(line) : \E j \in 1..Len(line[i]) :
        line[i][j] \notin WhitespaceChars

\* the text of a non-blank line from its first to its last non-blank character
Trimmed(s) ==
    LET nb == {i \in 1..Len(s) : s[i] \notin WhitespaceChars}
        lo == CHOOSE i \in nb : \A k \in nb : i <= k
        hi == CHOOSE i \in nb : \A k \in nb : k <= i
    IN  SubSeq(s, lo, hi)

Qualifies(b) ==
    b.type = 0 /\ \E i \in 1..Len(b.lines) : NonBlankLine(b.lines[i])

RECURSIVE SpaceJoined(_)
SpaceJoined(ls) ==
    IF Len(ls) = 1 THEN Trimmed(LineText(ls[1]))
    ELSE SpaceJoined(SubSeq(ls, 1, Len(ls) - 1)) \o <<" ">>
         \o Trimmed(LineText(ls[Len(ls)]))

ExpectedChunks(bs) ==
    LET q == SelectSeq(bs, Qualifies)
    IN  [i \in 1..Len(q) |->
            [bbox    |-> [k \in 1..4 |-> IntTrunc(q[i].bbox[k])],
             label   |-> "Text",
             content |-> SpaceJoined(SelectSeq(q[i].lines, NonBlankLine))]]

\* the three html lines of chunk c
HtmlGroup(c) ==
    << <<"<div data-bbox=\"[">> \o IntToChars(c.bbox[1]) \o <<",">>
          \o IntToChars(c.bbox[2]) \o <<",">> \o IntToChars(c.bbox[3])
          \o <<",">> \o IntToChars(c.bbox[4])
          \o <<"]\" data-label=\"Text\">">>,
       <<"<p>">> \o c.content \o <<"</p>">>,
       <<"</div>">> >>

RECURSIVE ExpectedHtml(_)
ExpectedHtml(cs) ==
    IF cs = <<>> THEN <<>>
    ELSE LET g == HtmlGroup(cs[1])
         IN  g[1] \o <<"\n">> \o g[2] \o <<"\n">> \o g[3]
             \o (IF Len(cs) = 1 THEN <<>>
                 ELSE <<"\n">> \o ExpectedHtml(Tail(cs)))

Newlines(s) == Cardinality({i \in 1..Len(s) : s[i] = "\n"})

\* C6: a success result holds one chunk and one three-line html group for
\* each type-0 block with at least one line that is non-empty when trimmed,
\* in block order, and nothing for any other block; a chunk's content is the
\* trimmed texts of the block's non-empty lines joined by single spaces; a
\* page without such blocks gives chunks = [] and html = "".
C6_ChunksAndHtmlFollowBlocks ==
    (Returned /\ result.success) =>
        /\ result.chunks = ExpectedChunks(blocks)
        /\ result.html = ExpectedHtml(result.chunks)
        /\ Newlines(result.html) =
              IF result.chunks = <<>> THEN 0 ELSE 3 * Len(result.chunks) - 1
        /\ (\A i \in 1..Len(blocks) : ~Qualifies(blocks[i])) =>
              (result.chunks = <<>> /\ result.html = <<>>)

C6_Witness ==
    /\ pc = "exited" /\ Returned /\ result.success
    /\ Len(blocks) = 2 /\ Len(result.chunks) = 1
    /\ \E i \in 1..Len(blocks) : blocks[i].type = 1 /\ blocks[i].lines # <<>>
    /\ \E i \in 1..Len(blocks) : Len(blocks[i].lines) = 3

SuccessPathLog ==
    <<"exists", "import", "open", "len", "getitem", "len", "get_text_dict",
      "get_text", "rect", "len", "close", "return">>

\* C7: a run of process_pdf that returns success = true has performed open,
\* page check, block read, text read, dimension read, close, return in that
\* order; the handle is closed before the return and nothing is read from
\* the document after the close.
C7_SuccessPathOrder ==
    /\ (Returned /\ result.success) =>
          /\ docState = "closed"
          /\ SubSeq(log, 1, Len(SuccessPathLog)) = SuccessPathLog
    /\ ("close" \in LogSet) =>
          \A i \in (Pos("close") + 1)..Len(log) :
              log[i] \in {"return", "print", "exit"}

C7_Witness == pc = "exited" /\ Returned /\ result.success

\* C8: a failed import gives the success = false result with the
\* installation troubleshooting list, no traceback and no opened document;
\* every other exception in process_pdf gives the success = false result with
\* the error text, a traceback and the generic troubleshooting list; the two
\* shapes are never mixed.
C8_FailureShapes ==
    /\ (caught = "ImportError") =>
          /\ ~result.success
          /\ DOMAIN result = {"success", "error", "troubleshooting"}
          /\ result.troubleshooting = InstallTroubleshooting
          /\ docState = "none"
          /\ "open" \notin LogSet
          /\ Pos("return") = Pos("import") + 1
    /\ (caught = "Exception") =>
          /\ ~result.success
          /\ DOMAIN result = {"success", "error", "traceback", "troubleshooting"}
          /\ result.troubleshooting = GenericTroubleshooting
          /\ result.error \in {LibraryErrorText, IndexErrorText}
          /\ result.traceback = TracebackText
    /\ (Returned /\ Pos("return") = Pos("import") + 1) => caught = "ImportError"
    /\ ("troubleshooting" \in DOMAIN result) =>
          (("traceback" \in DOMAIN result)
             <=> result.troubleshooting = GenericTroubleshooting)

C8_Witness ==
    pc = "exited" /\ caught = "ImportError" /\ exitStatus = 1

\* C9: the handle is closed on the success exit only: every success = false
\* return after the document was opened, the page-out-of-range return
\* included, leaves the handle open.
C9_ClosedOnlyOnSuccess ==
    /\ (Returned /\ docState # "none" /\ ~result.success) => docState = "open"
    /\ (docState = "closed" /\ Returned) => result.success

C9_Witness ==
    /\ pc = "exited" /\ docState = "open" /\ caught = "none"
    /\ ~result.success /\ page_number >= numPages

IsPageNotFound(res) ==
    ~res.success /\ res.error # <<>> /\ res.error[1] = "Page "

\* C10: with the document opened, process_pdf returns the page-out-of-range
\* failure exactly when page_number >= page count; a negative page_number
\* passes the check and indexes the document, ending in a success with a
\* negative metadata.page_number or in the generic-exception failure.
C10_OutOfRangeExactly ==
    (Returned /\ docState # "none") =>
        /\ IsPageNotFound(result) <=> page_number >= numPages
        /\ (page_number < 0) =>
              /\ "getitem" \in LogSet
              /\ \/ result.success /\ result.metadata.page_number < 0
                 \/ caught = "Exception" /\ "traceback" \in DOMAIN result

C10_Witness ==
    /\ pc = "exited" /\ Returned /\ page_number < 0
    /\ result.success /\ result.metadata.page_number = page_number

====
